---------------------------- MODULE Spec2Model ----------------------------
(***************************************************************************)
(* A model of aider/sendchat.py: the batch (OpenAI-style) provider with    *)
(* its retry wrapper and response cache, the streaming (Anthropic-style)   *)
(* provider, the prompt converter and the two module-level dispatch        *)
(* functions.                                                              *)
(*                                                                         *)
(* Python values are modelled as follows.  A str is a sequence of          *)
(* one-character strings where its characters matter (the converter) and   *)
(* an atom (a TLA+ string) where only its identity matters.  None is the   *)
(* atom None, or an option record for arguments that are lists.  A dict    *)
(* is the sequence of its <<key, value>> pairs in insertion order.  The    *)
(* outcome of a call is a record saying whether it returned or raised.     *)
(*                                                                         *)
(* Five specifications share the variables: Spec (the batch provider,      *)
(* called directly, with the cache), SpecConc (two threads calling the     *)
(* batch provider with a cache installed), SpecFp (the request key and     *)
(* hash of two requests), SpecDispatch (the dispatch functions and the     *)
(* streaming provider's entry points) and SpecConv (the prompt converter's *)
(* functions on bounded inputs).                                           *)
(*                                                                         *)
(* Class AnthropicTokens (lines 184-208) is left out.  Its body calls      *)
(* asyncio.run at line 208 although asyncio is never imported, so          *)
(* importing the module as it stands raises NameError; the model describes *)
(* the other classes and functions as they behave once defined.            *)
(***************************************************************************)
EXTENDS Integers, Sequences, FiniteSets, TLC

VARIABLES
    environ,      \* os.environ restricted to the two credential variables
    openaiAttrs,  \* the optional attributes set on the openai module
    CACHE,        \* the module global CACHE (line 20)
    fr,           \* one call frame per caller
    conv          \* the prompt converter's input and results (pure functions)

vars == <<environ, openaiAttrs, CACHE, fr, conv>>

----------------------------------------------------------------------------
(* Values *)

None == "None"

\* An environment variable that is not set at all.
Unset == "<unset>"

\* line 46: max_tries of the backoff decorator.
max_tries == 10

\* lines 38-45: the exception classes the backoff decorator retries.
RetryableErrors ==
    {"Timeout", "APIError", "ServiceUnavailableError", "RateLimitError",
     "APIConnectionError", "ConnectionError"}

\* What openai.ChatCompletion.create can raise besides the retried classes.
FatalErrors == {"InvalidRequestError", "AuthenticationError"}

Callers == {1}

Models == {"gpt-4", "claude-2"}

\* A response carrying choices[0].message.content, one whose first choice
\* lacks it, and one whose list of choices is empty.
Responses == {"resp_text", "resp_nocontent", "resp_nochoices"}

NoFunctions == [none |-> TRUE, val |-> <<>>]

SomeFunctions(v) == [none |-> FALSE, val |-> v]

\* messages: a list of dicts, each written with "role" before "content".
MessagesInputs ==
    { << <<<<"role", "user">>, <<"content", "hi">>>> >> }

FunctionsInputs ==
    { NoFunctions, SomeFunctions(<< <<<<"name", "f">>>> >>) }

----------------------------------------------------------------------------
(* json.dumps(kwargs, sort_keys=True) and hashlib.sha1, lines 66-67 *)

\* Every dict key that occurs in a request, in the order sorted() gives.
SortedKeyNames ==
    <<"content", "deployment_id", "description", "engine", "functions", "messages",
      "model", "name", "role", "stream", "temperature">>

\* Items joined by the "," separator json.dumps writes between them.
RECURSIVE JoinComma(_)
JoinComma(seqs) ==
    IF seqs = <<>> THEN <<>>
    ELSE IF Len(seqs) = 1 THEN Head(seqs)
    ELSE Head(seqs) \o <<",">> \o JoinComma(Tail(seqs))

\* SortItems without sort_keys: the pairs in insertion order.
SortItems_Unsorted(d) == d

\* The pairs of dict d (values already encoded) in sorted key order.
SortItems(d) ==
    LET Has(name) == \E i \in 1..Len(d) : d[i][1] = name
        Get(name) == d[CHOOSE i \in 1..Len(d) : d[i][1] = name]
        present   == SelectSeq(SortedKeyNames, Has)
    IN  [i \in 1..Len(present) |-> Get(present[i])]

\* A dict whose values are already JSON text, with sort_keys=True.
DumpsDict(d) ==
    LET items == SortItems(d)
    IN  <<"{">>
        \o JoinComma([i \in 1..Len(items) |->
                          <<items[i][1], ":">> \o items[i][2]])
        \o <<"}">>

\* A dict of str values: each value becomes one string token.
DumpsStrDict(d) ==
    DumpsDict([i \in 1..Len(d) |-> <<d[i][1], <<d[i][2]>>>>])

\* A list of dicts of str values.
DumpsDictList(l) ==
    <<"[">> \o JoinComma([i \in 1..Len(l) |-> DumpsStrDict(l[i])]) \o <<"]">>

\* lines 52-64: the request dict, each value as its JSON text, in
\* insertion order.
Kwargs(model, messages, functions, stream, attrs) ==
    << <<"model", <<model>>>>,
       <<"messages", DumpsDictList(messages)>>,
       <<"temperature", <<"0">>>>,
       <<"stream", <<IF stream THEN "true" ELSE "false">>>> >>
    \o (IF functions.none THEN <<>>
        ELSE << <<"functions", DumpsDictList(functions.val)>> >>)
    \o (IF "api_deployment_id" \in attrs
        THEN << <<"deployment_id", <<"dep">>>> >> ELSE <<>>)
    \o (IF "api_engine" \in attrs
        THEN << <<"engine", <<"eng">>>> >> ELSE <<>>)

\* line 66: key = json.dumps(kwargs, sort_keys=True).encode()
Dumps(kwargs) == DumpsDict(kwargs)

\* The code of a token: its place in the vocabulary of the request texts.
TokenCode(tok) ==
    LET vocabulary ==
            <<"{", "}", "[", "]", ",", ":", "0", "true", "false", "hi", "f",
              "user", "assistant", "dep", "eng", "gpt-4", "claude-2">>
            \o SortedKeyNames
    IN  IF \E i \in 1..Len(vocabulary) : vocabulary[i] = tok
        THEN CHOOSE i \in 1..Len(vocabulary) : vocabulary[i] = tok
        ELSE 0

\* line 67: hashlib.sha1(key), a fixed-width digest of the key's text.
RECURSIVE Sha1From(_, _)
Sha1From(h, key) ==
    IF key = <<>> THEN h
    ELSE Sha1From((h * 31 + TokenCode(Head(key))) % 65536, Tail(key))

Sha1(key) == Sha1From(7, key)

NoKey == <<>>

NoHash == -1

----------------------------------------------------------------------------
(* The module global CACHE, lines 19-20, 69-75 *)

EmptyStore == [k \in {} |-> None]

\* CACHE = None
CacheNone == [enabled |-> FALSE, store |-> EmptyStore]

\* A dict-like cache object with nothing in it.
CacheEmpty == [enabled |-> TRUE, store |-> EmptyStore]

\* CacheHit with the stream test inverted.
CacheHit_StreamInverted(stream, cache, key) ==
    stream /\ cache.enabled /\ key \in DOMAIN cache.store

\* line 69: not stream and CACHE is not None and key in CACHE
CacheHit(stream, cache, key) ==
    ~stream /\ cache.enabled /\ key \in DOMAIN cache.store

\* CacheAfterStore creating the cache when there is none.
CacheAfterStore_LazyInit(stream, cache, key, res) ==
    IF ~stream
    THEN [enabled |-> TRUE,
          store |-> [k \in DOMAIN cache.store \cup {key} |->
                        IF k = key THEN res ELSE cache.store[k]]]
    ELSE cache

\* CacheAfterStore replacing the cache's content by the one new entry.
CacheAfterStore_ReplacesAll(stream, cache, key, res) ==
    IF ~stream /\ cache.enabled
    THEN [cache EXCEPT !.store = [k \in {key} |-> res]]
    ELSE cache

\* CacheAfterStore without the assignment.
CacheAfterStore_Dropped(stream, cache, key, res) == cache

\* CacheAfterStore without the stream test.
CacheAfterStore_AlsoStreaming(stream, cache, key, res) ==
    IF cache.enabled
    THEN [cache EXCEPT !.store =
            [k \in DOMAIN cache.store \cup {key} |->
                IF k = key THEN res ELSE cache.store[k]]]
    ELSE cache

\* lines 74-75: if not stream and CACHE is not None: CACHE[key] = res
CacheAfterStore(stream, cache, key, res) ==
    IF ~stream /\ cache.enabled
    THEN [cache EXCEPT !.store =
            [k \in DOMAIN cache.store \cup {key} |->
                IF k = key THEN res ELSE cache.store[k]]]
    ELSE cache

----------------------------------------------------------------------------
(* Call frames *)

\* A prompt argument: a str (a sequence of characters) or a dict (a
\* sequence of <<role, content>> pairs).
StrPrompt(chars) == [type |-> "str", val |-> chars]

DictPrompt(items) == [type |-> "dict", val |-> items]

NoPrompt == [type |-> None, val |-> <<>>]

\* What the remote streaming service does when it is called: it answers
\* with a status error that carries a response body, or it delivers a
\* stream of completion fragments.
StatusError(body) == [kind |-> "status_error", body |-> body, fragments |-> <<>>]

Stream(fragments) == [kind |-> "stream", body |-> None, fragments |-> fragments]

NoRemote == [kind |-> None, body |-> None, fragments |-> <<>>]

NoOut == [kind |-> "none", exc |-> None, hash |-> NoHash, val |-> None]

\* A call that returned val (and, for send_with_retries, the hash object).
Returned(hash, val) ==
    [kind |-> "return", exc |-> None, hash |-> hash, val |-> val]

\* A call that raised exc to its caller.
Raised(exc) == [kind |-> "raise", exc |-> exc, hash |-> NoHash, val |-> None]

\* A call that raised exc(message) to its caller.
RaisedWith(exc, message) ==
    [kind |-> "raise", exc |-> exc, hash |-> NoHash, val |-> message]

IdleFrame ==
    [op |-> None, pc |-> "idle", bot |-> None,
     model |-> None, messages |-> <<>>, functions |-> NoFunctions,
     stream |-> FALSE, prompt |-> NoPrompt, remote |-> NoRemote,
     attrs |-> {},
     key |-> NoKey, hash |-> NoHash, hit |-> FALSE,
     tries |-> 0, ncalls |-> 0, fatal |-> FALSE, exc |-> None, res |-> None,
     out |-> NoOut]

\* The frame of a call that has just entered the retry wrapper of
\* OpenAIChatBot.send_with_retries: backoff starts its first try.
EnterFrame(op, model, messages, functions, stream) ==
    [IdleFrame EXCEPT !.op = op, !.pc = "attempt", !.bot = "OpenAIChatBot",
                      !.model = model, !.messages = messages,
                      !.functions = functions, !.stream = stream,
                      !.tries = 1]

\* A frame whose call ended at once with outcome out.
EndedFrame(op, bot, model, prompt, out) ==
    [IdleFrame EXCEPT !.op = op, !.pc = "done", !.bot = bot,
                      !.model = model, !.prompt = prompt, !.out = out]

----------------------------------------------------------------------------
(* OpenAIChatBot, lines 32-89 *)

Content(res) == "text"

\* line 87: response.choices[0].message.content.  Indexing an empty list
\* raises IndexError; reading a missing attribute raises AttributeError.
ExtractContent(res) ==
    IF res = "resp_nochoices" THEN Raised("IndexError")
    ELSE IF res = "resp_nocontent" THEN Raised("AttributeError")
    ELSE Returned(NoHash, Content(res))

\* line 88: the exception classes simple_send_with_retries catches.
SimpleSendCaught == {"AttributeError", "InvalidRequestError"}

\* lines 79-89: what simple_send_with_retries makes of the outcome of its
\* call of send_with_retries.
SimpleSendOutcome(inner) ==
    LET body == IF inner.kind = "raise" THEN inner
                ELSE ExtractContent(inner.val)
    IN  IF body.kind = "raise" /\ body.exc \in SimpleSendCaught
        THEN Returned(NoHash, None)
        ELSE body

SimpleOps == {"simple_send_with_retries", "OpenAIChatBot.simple_send_with_retries"}

DispatchOps == {"send_with_retries", "simple_send_with_retries"}

StreamOps == {"AnthropicChatBot.async_stream", "AnthropicChatBot.generate_prompt"}

\* The outcome the entry point op hands to its caller when the
\* send_with_retries it called ends with outcome inner (lines 216, 224,
\* 81-89).
Finish(op, inner) ==
    IF op \in SimpleOps THEN SimpleSendOutcome(inner) ELSE inner

\* RetriesAgain for every exception class.
RetriesAgain_AnyException(exc, tries) == tries < max_tries

\* RetriesAgain with the bound on the tries off by one.
RetriesAgain_OneMore(exc, tries) ==
    exc \in RetryableErrors /\ tries <= max_tries

\* lines 36-50: whether the backoff wrapper tries again after exception exc
\* ended try number tries.
RetriesAgain(exc, tries) == exc \in RetryableErrors /\ tries < max_tries

\* A caller calls OpenAIChatBot().send_with_retries(...) (line 51).
CallSendWithRetries(c) ==
    /\ fr[c].pc = "idle"
    /\ \E model \in Models, messages \in MessagesInputs,
          functions \in FunctionsInputs, stream \in BOOLEAN :
          fr' = [fr EXCEPT ![c] =
                    EnterFrame("OpenAIChatBot.send_with_retries",
                               model, messages, functions, stream)]
    /\ UNCHANGED <<environ, openaiAttrs, CACHE, conv>>

\* A caller calls OpenAIChatBot().simple_send_with_retries(...) (line 79).
CallSimpleSend(c) ==
    /\ fr[c].pc = "idle"
    /\ \E model \in Models, messages \in MessagesInputs :
          fr' = [fr EXCEPT ![c] =
                    EnterFrame("OpenAIChatBot.simple_send_with_retries",
                               model, messages, NoFunctions, FALSE)]
    /\ UNCHANGED <<environ, openaiAttrs, CACHE, conv>>

\* RequestKey computed for non-streaming requests only.
RequestKey_SkippedWhenStreaming(f) ==
    IF f.stream THEN NoKey
    ELSE Dumps(Kwargs(f.model, f.messages, f.functions, f.stream, openaiAttrs))

\* lines 52-67: the key and the hash object of the frame's request.
RequestKey(f) ==
    Dumps(Kwargs(f.model, f.messages, f.functions, f.stream, openaiAttrs))

RequestHash(f) == Sha1(RequestKey(f))

\* lines 52-70: one try builds the request, its key and hash, and looks
\* the key up; a hit returns the cached response.
Attempt(c) ==
    LET f    == fr[c]
        key  == RequestKey(f)
        hash == RequestHash(f)
    IN  /\ f.pc = "attempt"
        /\ IF CacheHit(f.stream, CACHE, key)
           THEN fr' = [fr EXCEPT ![c] =
                    [f EXCEPT !.key = key, !.hash = hash, !.hit = TRUE,
                              !.attrs = openaiAttrs, !.pc = "done",
                              !.out = Finish(f.op,
                                         Returned(hash, CACHE.store[key]))]]
           ELSE fr' = [fr EXCEPT ![c] =
                    [f EXCEPT !.key = key, !.hash = hash,
                              !.attrs = openaiAttrs, !.pc = "remote"]]
        /\ UNCHANGED <<environ, openaiAttrs, CACHE, conv>>

\* line 72: openai.ChatCompletion.create returns a response.
RemoteOk(c) ==
    /\ fr[c].pc = "remote"
    /\ \E res \in Responses :
          fr' = [fr EXCEPT ![c] =
                    [@ EXCEPT !.res = res, !.ncalls = @ + 1, !.pc = "store"]]
    /\ UNCHANGED <<environ, openaiAttrs, CACHE, conv>>

\* Retried with the function entered after its cache lookup.
Retried_SkipsLookup(f) ==
    [f EXCEPT !.ncalls = @ + 1, !.tries = @ + 1, !.pc = "remote"]

\* lines 36-51: the frame after the wrapper has dropped the exception of
\* a try: it calls the function again, from its first line.
Retried(f) ==
    [f EXCEPT !.ncalls = @ + 1, !.tries = @ + 1, !.pc = "attempt"]

\* line 72 raises; lines 36-50: the wrapper drops the exception and tries
\* again, or gives up and lets the exception escape.  fatal records that
\* the remote call has raised an exception outside the retried classes.
RemoteRaise(c) ==
    LET f == fr[c]
    IN  /\ f.pc = "remote"
        /\ \E exc \in RetryableErrors \cup FatalErrors :
              fr' = [fr EXCEPT ![c] =
                  IF RetriesAgain(exc, f.tries)
                  THEN [Retried(f) EXCEPT
                            !.fatal = exc \notin RetryableErrors]
                  ELSE [f EXCEPT !.exc = exc, !.ncalls = @ + 1,
                                 !.fatal = exc \notin RetryableErrors,
                                 !.pc = "done",
                                 !.out = Finish(f.op, Raised(exc))]]
        /\ UNCHANGED <<environ, openaiAttrs, CACHE, conv>>

\* lines 74-77: store the response unless streaming or uncached; return.
Store(c) ==
    LET f == fr[c]
    IN  /\ f.pc = "store"
        /\ CACHE' = CacheAfterStore(f.stream, CACHE, f.key, f.res)
        /\ fr' = [fr EXCEPT ![c] =
                    [f EXCEPT !.pc = "done",
                              !.out = Finish(f.op, Returned(f.hash, f.res))]]
        /\ UNCHANGED <<environ, openaiAttrs, conv>>

\* The caller takes the outcome; the frame is gone.
Return(c) ==
    /\ fr[c].pc = "done"
    /\ fr' = [fr EXCEPT ![c] = IdleFrame]
    /\ UNCHANGED <<environ, openaiAttrs, CACHE, conv>>

\* The embedding application assigns a cache object to the module global
\* CACHE, which the module itself leaves None (line 20).
EnableCache ==
    /\ ~CACHE.enabled
    /\ CACHE' = CacheEmpty
    /\ UNCHANGED <<environ, openaiAttrs, fr, conv>>

----------------------------------------------------------------------------
(* RoleOptions and PromptConverter, lines 156-182 *)

\* lines 156-159: the members of the enum RoleOptions, by name.  USER and
\* ASSISTANT are only annotated, never assigned, so the enum has none.
RoleOptions == [name \in {} |-> None]

\* line 163; the value the annotation gives for HUMAN_PROMPT.
human_prompt == <<"H", "u", "m", "a", "n", ":", "\n", "\n">>

\* line 164; the value the annotation gives for AI_PROMPT.
ai_prompt == <<"A", "s", "s", "i", "s", "t", "a", "n", "t", ":", "\n", "\n">>

\* lines 161-182: the methods class PromptConverter defines.
PromptConverterMethods == {"__init__", "convert_to_anthropic", "convert_to_openai"}

ConvReturnedText(text) ==
    [kind |-> "return", exc |-> None, text |-> text, dict |-> <<>>]

ConvReturnedDict(dict) ==
    [kind |-> "return", exc |-> None, text |-> <<>>, dict |-> dict]

ConvRaised(exc) == [kind |-> "raise", exc |-> exc, text |-> <<>>, dict |-> <<>>]

\* lines 169-174: the loop over message_dict.items(), from the items left
\* and the prompt built so far.  Reading a member the enum lacks raises
\* AttributeError.
RECURSIVE ConvertToAnthropicFrom(_, _)
ConvertToAnthropicFrom(items, prompt) ==
    IF items = <<>> THEN ConvReturnedText(prompt)
    ELSE LET role    == Head(items)[1]
             content == Head(items)[2]
         IN  IF "USER" \notin DOMAIN RoleOptions
             THEN ConvRaised("AttributeError")
             ELSE LET p1 == IF role = RoleOptions["USER"]
                            THEN prompt \o human_prompt \o content
                            ELSE prompt
                  IN  IF "ASSISTANT" \notin DOMAIN RoleOptions
                      THEN ConvRaised("AttributeError")
                      ELSE ConvertToAnthropicFrom(Tail(items),
                               IF role = RoleOptions["ASSISTANT"]
                               THEN p1 \o ai_prompt \o content
                               ELSE p1)

\* lines 167-174: convert_to_anthropic(message_dict)
ConvertToAnthropic(message_dict) == ConvertToAnthropicFrom(message_dict, <<>>)

\* Whether sep occurs in s at position i.
OccursAt(s, sep, i) ==
    /\ i + Len(sep) - 1 <= Len(s)
    /\ SubSeq(s, i, i + Len(sep) - 1) = sep

\* str.split(sep): the pieces of s between the occurrences of sep, found
\* from the left without overlap.
RECURSIVE Split(_, _)
Split(s, sep) ==
    IF \E i \in 1..Len(s) : OccursAt(s, sep, i)
    THEN LET i == CHOOSE j \in 1..Len(s) :
                     /\ OccursAt(s, sep, j)
                     /\ \A k \in 1..(j - 1) : ~OccursAt(s, sep, k)
         IN  <<SubSeq(s, 1, i - 1)>>
             \o Split(SubSeq(s, i + Len(sep), Len(s)), sep)
    ELSE <<s>>

Whitespace == {" ", "\n"}

\* str.strip(): s without its leading and trailing whitespace.
RECURSIVE Strip(_)
Strip(s) ==
    IF s = <<>> THEN s
    ELSE IF Head(s) \in Whitespace THEN Strip(Tail(s))
    ELSE IF s[Len(s)] \in Whitespace THEN Strip(SubSeq(s, 1, Len(s) - 1))
    ELSE s

\* response[role] = content on a dict: an existing key keeps its place.
DictSet(dict, key, value) ==
    IF \E i \in 1..Len(dict) : dict[i][1] = key
    THEN [i \in 1..Len(dict) |->
            IF dict[i][1] = key THEN <<key, value>> ELSE dict[i]]
    ELSE Append(dict, <<key, value>>)

\* lines 179-182: the loop over the segments, from the segments left and
\* the response built so far.  Unpacking a split that has not exactly two
\* parts raises ValueError; calling generate_prompt, which the class does
\* not define, raises AttributeError.  (Were it defined, its result is
\* taken to be its argument.)
RECURSIVE ConvertToOpenaiFrom(_, _)
ConvertToOpenaiFrom(messages, response) ==
    IF messages = <<>> THEN ConvReturnedDict(response)
    ELSE LET parts == Split(Head(messages), <<":">>)
         IN  IF Len(parts) # 2 THEN ConvRaised("ValueError")
             ELSE IF "generate_prompt" \notin PromptConverterMethods
                  THEN ConvRaised("AttributeError")
                  ELSE ConvertToOpenaiFrom(Tail(messages),
                           DictSet(response, Strip(parts[1]), Strip(parts[2])))

\* lines 176-182: convert_to_openai(message_string)
ConvertToOpenai(message_string) ==
    ConvertToOpenaiFrom(Split(message_string, <<"\n", "\n">>), <<>>)

\* convert_to_openai applied to what convert_to_anthropic gives; an
\* exception of the first call ends the round trip.
RoundTrip(message_dict) ==
    LET t == ConvertToAnthropic(message_dict)
    IN  IF t.kind = "raise" THEN t ELSE ConvertToOpenai(t.text)

----------------------------------------------------------------------------
(* AnthropicChatBot, lines 91-154 *)

\* lines 92-154: the methods class AnthropicChatBot defines.
AnthropicChatBotMethods ==
    {"__init__", "create", "is_claude", "generate_prompt", "async_stream"}

\* lines 93-96: the attributes __init__ sets on the instance.
AnthropicChatBotAttrs == {"api_key", "anthropic", "anthropic_chat", "converter"}

\* lines 33-89: the methods class OpenAIChatBot defines.
OpenAIChatBotMethods ==
    {"__init__", "send_with_retries", "simple_send_with_retries"}

Methods(bot) ==
    IF bot = "AnthropicChatBot" THEN AnthropicChatBotMethods
    ELSE OpenAIChatBotMethods

\* lines 104-105: model.startswith("claude"), on the model names used here.
is_claude(model) == model = "claude-2"

\* not prompt: an empty str or an empty dict is falsy.
Falsy(prompt) == Len(prompt.val) = 0

\* lines 122-154: async_stream(prompt, model).  Every path ends before
\* the remote call of line 139: is_claude on a model of None raises
\* AttributeError; a model that is not a claude model skips to line 154,
\* whose response is unbound; an empty prompt raises ValueError, which the
\* except clause of line 149 does not catch; line 136 reads
\* self.prompt_converter, an attribute __init__ does not set, and passes
\* convert_to_anthropic more arguments than it takes.  So what the remote
\* service would do has no part in the outcome.
AsyncStreamOutcome(prompt, model, remote) ==
    IF model = None THEN Raised("AttributeError")
    ELSE IF ~is_claude(model) THEN Raised("UnboundLocalError")
    ELSE IF Falsy(prompt) THEN Raised("ValueError")
    ELSE IF "prompt_converter" \notin AnthropicChatBotAttrs
         THEN Raised("AttributeError")
         ELSE Raised("TypeError")

\* lines 107-120: generate_prompt(prompt, model).  A model that is None
\* or not a claude model falls off the end and returns None.  Otherwise
\* the prompt is converted (a str has no items(): AttributeError), and
\* line 112 reads max_tokens_to_sample, a local that is assigned only on
\* line 115: UnboundLocalError, raised while the arguments of the remote
\* call are evaluated, so before the call and before the check of line
\* 116.  The except clause catches ValueError alone.
GeneratePromptOutcome(prompt, model) ==
    IF model = None \/ ~is_claude(model) THEN Returned(NoHash, None)
    ELSE IF prompt.type # "dict" THEN Raised("AttributeError")
    ELSE IF ConvertToAnthropic(prompt.val).kind = "raise"
         THEN Raised(ConvertToAnthropic(prompt.val).exc)
         ELSE Raised("UnboundLocalError")

StreamModels == Models \cup {None}

PromptInputs ==
    { StrPrompt(<<>>), StrPrompt(<<"h", "i">>),
      DictPrompt(<<>>), DictPrompt(<< <<"user", <<"h", "i">>>> >>) }

\* The fragments a stream delivers, as strings of characters.
Fragments == { <<"H", "e">>, <<"y">> }

\* line 139 and line 147: the behaviours of the remote service: a status
\* error with a body, and the streams of up to two different fragments.
RemoteBehaviours ==
    {StatusError("overloaded_error")}
    \cup {Stream(<<>>)}
    \cup {Stream(<<f>>) : f \in Fragments}
    \cup {Stream(<<p[1], p[2]>>) :
             p \in {q \in Fragments \X Fragments : q[1] # q[2]}}

\* A caller runs AnthropicChatBot(key).async_stream(prompt, model) against
\* a remote service that behaves as remote.
AsyncStream(c) ==
    /\ fr[c].pc = "idle"
    /\ \E prompt \in PromptInputs, model \in StreamModels,
          remote \in RemoteBehaviours :
          fr' = [fr EXCEPT ![c] =
                    [EndedFrame("AnthropicChatBot.async_stream",
                                "AnthropicChatBot", model, prompt,
                                AsyncStreamOutcome(prompt, model, remote))
                       EXCEPT !.remote = remote]]
    /\ UNCHANGED <<environ, openaiAttrs, CACHE, conv>>

\* A caller calls AnthropicChatBot(key).generate_prompt(prompt, model).
GeneratePrompt(c) ==
    /\ fr[c].pc = "idle"
    /\ \E prompt \in PromptInputs, model \in StreamModels :
          fr' = [fr EXCEPT ![c] =
                    EndedFrame("AnthropicChatBot.generate_prompt",
                               "AnthropicChatBot", model, prompt,
                               GeneratePromptOutcome(prompt, model))]
    /\ UNCHANGED <<environ, openaiAttrs, CACHE, conv>>

----------------------------------------------------------------------------
(* The dispatch functions, lines 22-30 and 210-224 *)

\* What a credential variable can hold: nothing, the empty string, a key.
CredentialValues(key) == {Unset, "", key}

\* check_api_keys with the OpenAI key tested first.
check_api_keys_OpenAIFirst(env) ==
    LET openai_api_key    == env.OPENAI_API_KEY
        anthropic_api_key == env.ANTHROPIC_API_KEY
    IN  IF anthropic_api_key = Unset THEN Raised("KeyError")
        ELSE IF openai_api_key \notin {Unset, ""} THEN Returned(NoHash, "False")
        ELSE IF anthropic_api_key # "" THEN Returned(NoHash, anthropic_api_key)
        ELSE Returned(NoHash, "False")

\* lines 22-30: check_api_keys().  os.environ[...] raises KeyError for a
\* variable that is not set; an empty key is falsy.
check_api_keys(env) ==
    LET openai_api_key    == env.OPENAI_API_KEY
        anthropic_api_key == env.ANTHROPIC_API_KEY
    IN  IF anthropic_api_key = Unset THEN Raised("KeyError")
        ELSE IF anthropic_api_key # "" THEN Returned(NoHash, anthropic_api_key)
        ELSE IF openai_api_key \notin {Unset, ""} THEN Returned(NoHash, "False")
        ELSE Returned(NoHash, "False")

\* lines 212-215, 220-223: the class of the bot built for api_key.
BotFor(api_key) ==
    IF api_key # "False" THEN "AnthropicChatBot" ELSE "OpenAIChatBot"

\* lines 210-216, 218-224: the frame after the dispatch function op has
\* checked the keys, built the bot and called its method of the same
\* name with the arguments given.
Dispatched(op, model, messages, functions, stream) ==
    LET api_key == check_api_keys(environ)
    IN  IF api_key.kind = "raise"
        THEN EndedFrame(op, None, model, NoPrompt, api_key)
        ELSE IF op \notin Methods(BotFor(api_key.val))
        THEN EndedFrame(op, BotFor(api_key.val), model, NoPrompt,
                        Raised("AttributeError"))
        ELSE EnterFrame(op, model, messages, functions, stream)

\* A caller calls the module's send_with_retries (line 210).
DispatchSendWithRetries(c) ==
    /\ fr[c].pc = "idle"
    /\ \E model \in Models, messages \in MessagesInputs,
          functions \in FunctionsInputs, stream \in BOOLEAN :
          fr' = [fr EXCEPT ![c] =
                    Dispatched("send_with_retries",
                               model, messages, functions, stream)]
    /\ UNCHANGED <<environ, openaiAttrs, CACHE, conv>>

\* A caller calls the module's simple_send_with_retries (line 218).
DispatchSimpleSend(c) ==
    /\ fr[c].pc = "idle"
    /\ \E model \in Models, messages \in MessagesInputs :
          fr' = [fr EXCEPT ![c] =
                    Dispatched("simple_send_with_retries",
                               model, messages, NoFunctions, FALSE)]
    /\ UNCHANGED <<environ, openaiAttrs, CACHE, conv>>

\* The process environment changes.  It is read at lines 23, 24 and 34
\* only, within the step that starts a call, so a change is taken between
\* calls.
SetEnviron ==
    /\ \A c \in Callers : fr[c].pc = "idle"
    /\ \E a \in CredentialValues("sk-ant"), o \in CredentialValues("sk-openai") :
          /\ environ' = [ANTHROPIC_API_KEY |-> a, OPENAI_API_KEY |-> o]
          /\ environ' # environ
    /\ UNCHANGED <<openaiAttrs, CACHE, fr, conv>>

----------------------------------------------------------------------------
(* The batch provider on its own *)

NoConv ==
    [pc |-> "none", message_dict |-> <<>>, message_string |-> <<>>,
     out |-> ConvRaised(None)]

InitBatch ==
    /\ environ = [ANTHROPIC_API_KEY |-> Unset, OPENAI_API_KEY |-> "sk-openai"]
    /\ openaiAttrs \in SUBSET {"api_deployment_id", "api_engine"}
    /\ CACHE = CacheNone
    /\ fr = [c \in Callers |-> IdleFrame]
    /\ conv = NoConv

Next ==
    \/ \E c \in Callers : CallSendWithRetries(c)
    \/ \E c \in Callers : CallSimpleSend(c)
    \/ \E c \in Callers : Attempt(c)
    \/ \E c \in Callers : RemoteOk(c)
    \/ \E c \in Callers : RemoteRaise(c)
    \/ \E c \in Callers : Store(c)
    \/ \E c \in Callers : Return(c)
    \/ EnableCache

Spec == InitBatch /\ [][Next]_vars

----------------------------------------------------------------------------
(* Two threads calling the batch provider at once, with a cache installed *)

Threads == {1, 2}

\* A thread calls OpenAIChatBot().send_with_retries(model, messages, None,
\* False) (line 51).
CallNonStreaming(c) ==
    /\ fr[c].pc = "idle"
    /\ \E model \in Models, messages \in MessagesInputs :
          fr' = [fr EXCEPT ![c] =
                    EnterFrame("OpenAIChatBot.send_with_retries",
                               model, messages, NoFunctions, FALSE)]
    /\ UNCHANGED <<environ, openaiAttrs, CACHE, conv>>

InitConc ==
    /\ environ = [ANTHROPIC_API_KEY |-> Unset, OPENAI_API_KEY |-> "sk-openai"]
    /\ openaiAttrs = {}
    /\ CACHE = CacheEmpty
    /\ fr = [c \in Threads |-> IdleFrame]
    /\ conv = NoConv

NextConc ==
    \/ \E c \in Threads : CallNonStreaming(c)
    \/ \E c \in Threads : Attempt(c)
    \/ \E c \in Threads : RemoteOk(c)
    \/ \E c \in Threads : RemoteRaise(c)
    \/ \E c \in Threads : Store(c)
    \/ \E c \in Threads : Return(c)

SpecConc == InitConc /\ [][NextConc]_vars

----------------------------------------------------------------------------
(* The request key and hash of two requests *)

\* Message dicts: the same message written with "role" first and with
\* "content" first, and another message.
FpMessageDicts ==
    { <<<<"role", "user">>, <<"content", "hi">>>>,
      <<<<"content", "hi">>, <<"role", "user">>>>,
      <<<<"role", "assistant">>, <<"content", "hi">>>> }

\* messages: the lists of one or two message dicts.
FpMessages ==
    { <<m>> : m \in FpMessageDicts }
    \cup { <<p[1], p[2]>> : p \in FpMessageDicts \X FpMessageDicts }

\* functions: None, or one function dict written in either key order.
FpFunctions ==
    { NoFunctions,
      SomeFunctions(<< <<<<"name", "f">>, <<"description", "hi">>>> >>),
      SomeFunctions(<< <<<<"description", "hi">>, <<"name", "f">>>> >>) }

\* lines 52-67 of one call of send_with_retries: the request dict, its
\* key and its hash object, under the attributes the openai module has at
\* the call.
Fingerprint(c) ==
    /\ fr[c].pc = "idle"
    /\ \E model \in Models, messages \in FpMessages,
          functions \in FpFunctions, stream \in BOOLEAN :
          LET f == [IdleFrame EXCEPT
                       !.op = "OpenAIChatBot.send_with_retries",
                       !.bot = "OpenAIChatBot", !.model = model,
                       !.messages = messages, !.functions = functions,
                       !.stream = stream, !.tries = 1]
          IN  fr' = [fr EXCEPT ![c] =
                        [f EXCEPT !.key = RequestKey(f),
                                  !.hash = RequestHash(f),
                                  !.attrs = openaiAttrs,
                                  !.pc = "fingerprint"]]
    /\ UNCHANGED <<environ, openaiAttrs, CACHE, conv>>

\* lines 61-64 read openai.api_deployment_id and openai.api_engine, module
\* attributes of the openai library that the application sets or deletes;
\* here it does so with api_engine.
SetOpenaiAttrs ==
    /\ openaiAttrs' \in SUBSET {"api_engine"}
    /\ openaiAttrs' # openaiAttrs
    /\ UNCHANGED <<environ, CACHE, fr, conv>>

InitFp ==
    /\ environ = [ANTHROPIC_API_KEY |-> Unset, OPENAI_API_KEY |-> "sk-openai"]
    /\ openaiAttrs = {}
    /\ CACHE = CacheNone
    /\ fr = [c \in Threads |-> IdleFrame]
    /\ conv = NoConv

NextFp ==
    \/ \E c \in Threads : Fingerprint(c)
    \/ SetOpenaiAttrs

SpecFp == InitFp /\ [][NextFp]_vars

----------------------------------------------------------------------------
(* The dispatch functions and the streaming provider's entry points *)

InitDispatch ==
    /\ environ \in [ANTHROPIC_API_KEY : CredentialValues("sk-ant"),
                    OPENAI_API_KEY : CredentialValues("sk-openai")]
    /\ openaiAttrs = {}
    /\ CACHE = CacheNone
    /\ fr = [c \in Callers |-> IdleFrame]
    /\ conv = NoConv

NextDispatch ==
    \/ SetEnviron
    \/ \E c \in Callers : DispatchSendWithRetries(c)
    \/ \E c \in Callers : DispatchSimpleSend(c)
    \/ \E c \in Callers : AsyncStream(c)
    \/ \E c \in Callers : GeneratePrompt(c)
    \/ \E c \in Callers : Attempt(c)
    \/ \E c \in Callers : RemoteOk(c)
    \/ \E c \in Callers : RemoteRaise(c)
    \/ \E c \in Callers : Store(c)
    \/ \E c \in Callers : Return(c)

SpecDispatch == InitDispatch /\ [][NextDispatch]_vars


----------------------------------------------------------------------------
(* The prompt converter's functions on bounded inputs *)

MaxMsgs == 2

MaxLen == 3

Roles == {"user", "assistant", "system"}

Contents == { <<"h", "i">>, <<"a", ":", "b">> }

\* The dicts of at most MaxMsgs items: a dict holds each role once.
MessageDicts ==
    { d \in UNION { [1..n -> Roles \X Contents] : n \in 0..MaxMsgs } :
        \A i, j \in 1..Len(d) : i # j => d[i][1] # d[j][1] }

TextAlphabet == {"a", ":", "\n"}

\* The strings of at most MaxLen characters, and the transcript
\* "Human:\n\nhi".
MessageStrings ==
    UNION { [1..n -> TextAlphabet] : n \in 0..MaxLen }
    \cup { human_prompt \o <<"h", "i">> }

InitConv ==
    /\ environ = [ANTHROPIC_API_KEY |-> Unset, OPENAI_API_KEY |-> Unset]
    /\ openaiAttrs = {}
    /\ CACHE = CacheNone
    /\ fr = [c \in Callers |-> IdleFrame]
    /\ \E d \in MessageDicts, t \in MessageStrings :
          conv = [pc |-> "start", message_dict |-> d, message_string |-> t,
                  out |-> ConvRaised(None)]

\* PromptConverter().convert_to_anthropic(message_dict)
ToTranscript ==
    /\ conv.pc = "start"
    /\ conv' = [conv EXCEPT !.pc = "convert_to_anthropic",
                            !.out = ConvertToAnthropic(conv.message_dict)]
    /\ UNCHANGED <<environ, openaiAttrs, CACHE, fr>>

\* PromptConverter().convert_to_openai(message_string)
ToConversation ==
    /\ conv.pc = "start"
    /\ conv' = [conv EXCEPT !.pc = "convert_to_openai",
                            !.out = ConvertToOpenai(conv.message_string)]
    /\ UNCHANGED <<environ, openaiAttrs, CACHE, fr>>

\* convert_to_openai(convert_to_anthropic(message_dict))
ToRoundTrip ==
    /\ conv.pc = "start"
    /\ conv' = [conv EXCEPT !.pc = "round_trip",
                            !.out = RoundTrip(conv.message_dict)]
    /\ UNCHANGED <<environ, openaiAttrs, CACHE, fr>>

NextConv == ToTranscript \/ ToConversation \/ ToRoundTrip

SpecConv == InitConv /\ [][NextConv]_vars

----------------------------------------------------------------------------
(* Properties of the batch provider, checked under Spec *)

BatchFrame(f) == f.bot = "OpenAIChatBot" /\ f.pc # "idle"

SendFrame(f) == BatchFrame(f) /\ f.op \notin SimpleOps

\* C1: a send_with_retries call of the batch provider never makes more
\* than max_tries (10) tries or remote calls; a call whose remote call
\* raised a retried error on every try ends only after exactly 10 remote
\* calls, and it ends by raising the error of the last try.
C1_RetryExhaustion ==
    \A c \in Callers :
        LET f == fr[c]
        IN  BatchFrame(f) =>
              /\ f.tries \in 1..max_tries
              /\ f.ncalls <= f.tries
              /\ f.pc \in {"attempt", "remote"} => f.ncalls = f.tries - 1
              /\ (SendFrame(f) /\ f.pc = "done" /\ f.out.kind = "raise"
                    /\ f.out.exc \in RetryableErrors)
                  => /\ f.ncalls = max_tries
                     /\ f.tries = max_tries
                     /\ f.out.exc = f.exc

C1_Witness ==
    \E c \in Callers :
        /\ SendFrame(fr[c]) /\ fr[c].pc = "done"
        /\ fr[c].out.kind = "raise" /\ fr[c].out.exc \in RetryableErrors
        /\ fr[c].ncalls = max_tries

\* C2: when a try of a non-streaming send_with_retries call starts while
\* the cache holds an entry for the request's key, the try ends the call
\* by returning the hash and exactly the cached response, makes no remote
\* call and leaves the cache as it is.
C2_CacheShortCircuit ==
    [][\A c \in Callers :
          LET f == fr[c]
          IN  (/\ SendFrame(f) /\ f.pc = "attempt" /\ ~f.stream
               /\ CACHE.enabled /\ RequestKey(f) \in DOMAIN CACHE.store
               /\ fr'[c] # f)
              => /\ fr'[c].pc = "done"
                 /\ fr'[c].out =
                       Returned(RequestHash(f), CACHE.store[RequestKey(f)])
                 /\ fr'[c].ncalls = f.ncalls
                 /\ CACHE' = CACHE]_vars

C2_Witness ==
    \E c \in Callers :
        /\ SendFrame(fr[c]) /\ fr[c].pc = "done" /\ fr[c].hit
        /\ fr[c].ncalls = 0
        /\ fr[c].out.val = "resp_text"

\* C3 as claimed: once a non-streaming call of the batch provider has
\* missed the cache and its remote call has succeeded, the cache holds the
\* response under the request's key.
C3_StoredAfterMiss ==
    \A c \in Callers :
        LET f == fr[c]
        IN  (BatchFrame(f) /\ f.pc = "done" /\ ~f.stream /\ ~f.hit
              /\ f.res # None)
            => /\ CACHE.enabled
               /\ f.key \in DOMAIN CACHE.store
               /\ CACHE.store[f.key] = f.res

\* C3 amended: the step that ends a non-streaming call after a successful
\* remote call stores the response under the request's key exactly when
\* CACHE holds a cache object, so that the lookup of the next identical
\* call hits; while CACHE is None, as the module leaves it, the step
\* stores nothing and CACHE stays None.
C3_StoredWhenEnabled ==
    [][\A c \in Callers :
          LET f == fr[c]
          IN  (BatchFrame(f) /\ f.pc = "store" /\ ~f.stream
                /\ fr'[c].pc = "done")
              => IF CACHE.enabled
                 THEN /\ CacheHit(FALSE, CACHE', RequestKey(f))
                      /\ CACHE'.store[RequestKey(f)] = f.res
                      /\ \A k \in DOMAIN CACHE.store \ {RequestKey(f)} :
                            /\ k \in DOMAIN CACHE'.store
                            /\ CACHE'.store[k] = CACHE.store[k]
                 ELSE CACHE' = CacheNone]_vars

C3_Witness ==
    \E c \in Callers :
        /\ BatchFrame(fr[c]) /\ fr[c].pc = "done" /\ ~fr[c].stream
        /\ ~fr[c].hit /\ fr[c].res # None
        /\ CACHE.enabled /\ fr[c].key \in DOMAIN CACHE.store
        /\ CACHE.store[fr[c].key] = fr[c].res

\* The key of the frame's request with stream = False.
NonStreamingKey(f) ==
    Dumps(Kwargs(f.model, f.messages, f.functions, FALSE, openaiAttrs))

\* C4: a streaming send_with_retries call never hits the cache, returns
\* only after a remote call of its own, and no step of it changes the
\* cache, whether or not the cache holds the same request without stream.
C4_StreamingBypassesCache ==
    /\ [](\A c \in Callers :
            (BatchFrame(fr[c]) /\ fr[c].stream)
            => /\ ~fr[c].hit
               /\ (fr[c].pc = "done" /\ fr[c].out.kind = "return")
                    => (fr[c].ncalls >= 1 /\ fr[c].out.val = fr[c].res))
    /\ [][\A c \in Callers :
            (BatchFrame(fr[c]) /\ fr[c].stream /\ fr'[c] # fr[c])
            => CACHE' = CACHE]_vars

C4_Witness ==
    \E c \in Callers :
        /\ BatchFrame(fr[c]) /\ fr[c].stream /\ fr[c].pc = "done"
        /\ fr[c].out.kind = "return" /\ fr[c].ncalls = 1
        /\ CACHE.enabled
        /\ NonStreamingKey(fr[c]) \in DOMAIN CACHE.store
        /\ CACHE.store[NonStreamingKey(fr[c])] # fr[c].res

\* C5 as claimed: the key and the hash of a request are never computed
\* in a send_with_retries call with stream == True.
C5_NoFingerprintWhenStreaming ==
    \A c \in Callers :
        (BatchFrame(fr[c]) /\ fr[c].stream)
        => (fr[c].key = NoKey /\ fr[c].hash = NoHash)

\* C5 amended: every try of send_with_retries computes the key and the
\* hash of the request, for a streaming request as for any other, and a
\* call that returns hands that hash to its caller; stream == True skips
\* the cache lookup and the cache store only.
C5_FingerprintAlwaysComputed ==
    \A c \in Callers :
        LET f == fr[c]
        IN  (BatchFrame(f) /\ f.pc # "attempt")
            => /\ f.key # NoKey
               /\ f.key =
                    Dumps(Kwargs(f.model, f.messages, f.functions, f.stream,
                                 openaiAttrs))
               /\ f.hash = Sha1(f.key)
               /\ (SendFrame(f) /\ f.pc = "done" /\ f.out.kind = "return")
                    => f.out.hash = f.hash

C5_Witness ==
    \E c \in Callers :
        /\ SendFrame(fr[c]) /\ fr[c].stream /\ fr[c].pc = "done"
        /\ fr[c].out.kind = "return"
        /\ fr[c].key # NoKey /\ fr[c].out.hash = Sha1(fr[c].key)

\* C11: once the remote call of a batch provider call has raised an
\* exception outside the retried classes, the call is over: no further try
\* is made (the remote calls number the tries, one when the first try
\* failed so), and send_with_retries has raised that exception to its
\* caller.
C11_FatalFailsFast ==
    \A c \in DOMAIN fr :
        LET f == fr[c]
        IN  (BatchFrame(f) /\ f.fatal)
            => /\ f.pc = "done"
               /\ f.exc \in FatalErrors
               /\ f.ncalls = f.tries
               /\ SendFrame(f) => f.out = Raised(f.exc)

C11_Witness ==
    \E c \in DOMAIN fr :
        /\ SendFrame(fr[c]) /\ fr[c].fatal /\ fr[c].pc = "done"
        /\ fr[c].tries = 1 /\ fr[c].ncalls = 1
        /\ fr[c].out = Raised("InvalidRequestError")

\* The response the frame's send_with_retries call returned: the cached
\* one after a hit, the remote call's otherwise.
InnerResponse(f) == IF f.hit THEN CACHE.store[f.key] ELSE f.res

\* C12: simple_send_with_retries of the batch provider returns None when
\* the response lacks the first choice's message content or the remote
\* side rejected the request as invalid, the first choice's content when
\* the response has it, and raises every other exception of its call.
C12_SimpleSendAbsentOrContent ==
    \A c \in DOMAIN fr :
        LET f == fr[c]
        IN  (BatchFrame(f) /\ f.op \in SimpleOps /\ f.pc = "done")
            => f.out =
                 IF f.exc # None
                 THEN IF f.exc = "InvalidRequestError"
                      THEN Returned(NoHash, None)
                      ELSE Raised(f.exc)
                 ELSE IF InnerResponse(f) = "resp_text"
                      THEN Returned(NoHash, "text")
                      ELSE Returned(NoHash, None)

\* C19: while CACHE is None no lookup hits, every call of the batch
\* provider that ends has made a remote call, and no step of a call
\* changes CACHE: it is None after any sequence of calls.
C19_CachingDisabled ==
    /\ [](~CACHE.enabled
          => /\ CACHE = CacheNone
             /\ \A c \in DOMAIN fr :
                   BatchFrame(fr[c])
                   => /\ ~fr[c].hit
                      /\ fr[c].pc = "done" => fr[c].ncalls >= 1)
    /\ [][(~CACHE.enabled /\ fr' # fr) => CACHE' = CacheNone]_vars

C19_Witness ==
    \E c \in DOMAIN fr :
        /\ ~CACHE.enabled
        /\ SendFrame(fr[c]) /\ ~fr[c].stream /\ fr[c].pc = "done"
        /\ fr[c].out.kind = "return" /\ fr[c].ncalls = 1

----------------------------------------------------------------------------
(* Properties of the request key and hash, checked under SpecFp *)

\* d1 == d2 on dicts: the same keys with the same values, in any order.
DictEq(d1, d2) == {d1[i] : i \in 1..Len(d1)} = {d2[i] : i \in 1..Len(d2)}

\* l1 == l2 on lists of dicts: the same length and equal dicts in turn.
DictListEq(l1, l2) ==
    /\ Len(l1) = Len(l2)
    /\ \A i \in 1..Len(l1) : DictEq(l1[i], l2[i])

\* The requests of two frames are equal as Python values.
SameRequest(f, g) ==
    /\ f.model = g.model
    /\ f.stream = g.stream
    /\ DictListEq(f.messages, g.messages)
    /\ f.functions.none = g.functions.none
    /\ DictListEq(f.functions.val, g.functions.val)

\* C15 as stated: two calls with equal requests have the same key and the
\* same hash, whatever the key order of their dicts.
C15_EqualRequestsEqualKeys ==
    \A c1, c2 \in DOMAIN fr :
        (/\ fr[c1].pc = "fingerprint" /\ fr[c2].pc = "fingerprint"
         /\ SameRequest(fr[c1], fr[c2]))
        => (fr[c1].key = fr[c2].key /\ fr[c1].hash = fr[c2].hash)

\* C15: two calls with equal requests, made while the openai module has
\* the same api_deployment_id and api_engine attributes, have the same key
\* and the same hash, whatever the key order of their message and
\* function dicts; the key also covers those two attributes.
C15_EqualRequestsSameAttrsEqualKeys ==
    \A c1, c2 \in DOMAIN fr :
        (/\ fr[c1].pc = "fingerprint" /\ fr[c2].pc = "fingerprint"
         /\ SameRequest(fr[c1], fr[c2])
         /\ fr[c1].attrs = fr[c2].attrs)
        => (fr[c1].key = fr[c2].key /\ fr[c1].hash = fr[c2].hash)

\* Two calls with equal requests whose message dicts and function dicts
\* are written in different key orders got the same key.
C15_Witness ==
    /\ fr[1].pc = "fingerprint" /\ fr[2].pc = "fingerprint"
    /\ SameRequest(fr[1], fr[2])
    /\ fr[1].attrs = fr[2].attrs
    /\ Len(fr[1].messages) = 2
    /\ fr[1].messages[1] # fr[2].messages[1]
    /\ ~fr[1].functions.none
    /\ fr[1].functions # fr[2].functions
    /\ fr[1].key = fr[2].key /\ fr[1].hash = fr[2].hash

----------------------------------------------------------------------------
(* Properties of concurrent calls, checked under SpecConc *)

\* C18: with non-streaming calls of two threads interleaved at the cache
\* lookup, the remote call and the cache store, every step that changes
\* the cache is the store of one call, which writes under the key of that
\* call's request the response its remote call returned and keeps every
\* other entry; so every cache entry always maps a request's key to a
\* response (the last one stored for it).
C18_NoCorruption ==
    /\ [](\A k \in DOMAIN CACHE.store :
            /\ CACHE.store[k] \in Responses
            /\ \E model \in Models, messages \in MessagesInputs :
                  k = Dumps(Kwargs(model, messages, NoFunctions, FALSE,
                                   openaiAttrs)))
    /\ [][/\ DOMAIN CACHE.store \subseteq DOMAIN CACHE'.store
          /\ \A k \in DOMAIN CACHE'.store :
                (k \notin DOMAIN CACHE.store
                   \/ CACHE'.store[k] # CACHE.store[k])
                => \E c \in DOMAIN fr :
                      /\ fr[c].pc = "store" /\ fr'[c].pc = "done"
                      /\ fr[c].res \in Responses
                      /\ k = fr[c].key
                      /\ k = Dumps(Kwargs(fr[c].model, fr[c].messages,
                                          fr[c].functions, fr[c].stream,
                                          openaiAttrs))
                      /\ CACHE'.store[k] = fr[c].res]_vars

\* Two calls for the same request both made a remote call, got different
\* responses, and the cache holds one of them beside another request's.
C18_Witness ==
    /\ fr[1].pc = "done" /\ fr[2].pc = "done"
    /\ fr[1].key = fr[2].key
    /\ ~fr[1].hit /\ ~fr[2].hit
    /\ fr[1].ncalls = 1 /\ fr[2].ncalls = 1
    /\ fr[1].res # None /\ fr[2].res # None /\ fr[1].res # fr[2].res
    /\ CACHE.store[fr[1].key] = fr[1].res
    /\ Cardinality(DOMAIN CACHE.store) = 2

\* C20: a try of the batch provider whose remote call raises leaves the
\* cache as it was, whether the call then retries or gives up (so a call
\* that gives up leaves for its request only what the cache held before),
\* and a retry starts the function anew, at the cache lookup: a retry that
\* finds the key cached returns without a further remote call.
C20_FailedAttemptLeavesCache ==
    /\ [](\A c \in DOMAIN fr :
            (BatchFrame(fr[c]) /\ fr[c].hit)
            => (fr[c].pc = "done" /\ fr[c].ncalls = fr[c].tries - 1))
    /\ [][\A c \in DOMAIN fr :
            (fr[c].pc = "remote" /\ fr'[c] # fr[c] /\ fr'[c].pc # "store")
            => /\ CACHE' = CACHE
               /\ fr'[c].ncalls = fr[c].ncalls + 1
               /\ \/ fr'[c].pc = "done" /\ fr'[c].out.kind = "raise"
                  \/ fr'[c].pc = "attempt"
                       /\ fr'[c].tries = fr[c].tries + 1]_vars

\* A call whose first try failed and whose second try hit the cache.
C20_Witness ==
    \E c \in DOMAIN fr :
        /\ BatchFrame(fr[c]) /\ fr[c].pc = "done" /\ fr[c].hit
        /\ fr[c].tries = 2 /\ fr[c].ncalls = 1
        /\ fr[c].out.kind = "return"

----------------------------------------------------------------------------
(* Properties of the dispatch functions and of the streaming entry         *)
(* points, checked under SpecDispatch.  The environment changes between    *)
(* calls only, so a frame's call read the environment of the same state.   *)

\* A credential is present when its variable is set to a non-empty value.
Present(value) == value \notin {Unset, ""}

DispatchFrame(f) == f.op \in DispatchOps /\ f.pc # "idle"

\* C6: every call of a dispatch function made while both credentials are
\* present builds the streaming provider (AnthropicChatBot), whatever the
\* model asked for, and each call checks the credentials anew.
C6_ProviderPriority ==
    \A c \in Callers :
        (/\ DispatchFrame(fr[c])
         /\ Present(environ.ANTHROPIC_API_KEY)
         /\ Present(environ.OPENAI_API_KEY))
        => fr[c].bot = "AnthropicChatBot"

C6_Witness ==
    \E c \in Callers :
        /\ DispatchFrame(fr[c]) /\ fr[c].model = "gpt-4"
        /\ Present(environ.ANTHROPIC_API_KEY)
        /\ Present(environ.OPENAI_API_KEY)
        /\ fr[c].bot = "AnthropicChatBot"

\* C7: a call of a dispatch function made while the streaming provider's
\* credential is not set and the batch provider's is present builds the
\* batch provider (OpenAIChatBot) and does not fail in the credential check.
C7_BatchSelectedWhenStreamingUnset ==
    \A c \in Callers :
        (/\ DispatchFrame(fr[c])
         /\ environ.ANTHROPIC_API_KEY = Unset
         /\ Present(environ.OPENAI_API_KEY))
        => /\ fr[c].bot = "OpenAIChatBot"
           /\ fr[c].out # Raised("KeyError")

\* C8: a call of a dispatch function reaches the method of the same name
\* on the bot it built, for the streaming provider as for the batch
\* provider: it never ends with the AttributeError of a missing method.
C8_ForwardedToSameOperation ==
    \A c \in Callers :
        (DispatchFrame(fr[c]) /\ fr[c].bot # None)
        => /\ fr[c].op \in Methods(fr[c].bot)
           /\ fr[c].out # Raised("AttributeError")

\* The errors that report an invalid request.
InvalidRequestErrors == {"ValueError", "InvalidRequestError"}

\* C10: every call of a streaming entry point (async_stream or
\* generate_prompt) with an empty prompt raises an invalid-request error,
\* for every model, and has made no remote call.
C10_FailFastOnEmptyPrompt ==
    \A c \in Callers :
        (/\ fr[c].op \in StreamOps /\ fr[c].pc = "done"
         /\ fr[c].model \in Models /\ Falsy(fr[c].prompt))
        => /\ fr[c].out.kind = "raise"
           /\ fr[c].out.exc \in InvalidRequestErrors
           /\ fr[c].ncalls = 0

\* A call of async_stream that has ended, for a claude model and a prompt
\* that is not empty: the call the provider is to answer.
StreamedFrame(f) ==
    /\ f.op = "AnthropicChatBot.async_stream" /\ f.pc = "done"
    /\ f.model # None /\ is_claude(f.model) /\ ~Falsy(f.prompt)

\* C14: when the remote streaming service answers with a status error,
\* async_stream raises an Exception whose message is the body of the
\* error's response; it does not return and the remote call is made once.
C14_StatusErrorReraised ==
    \A c \in Callers :
        (StreamedFrame(fr[c]) /\ fr[c].remote.kind = "status_error")
        => /\ fr[c].out = RaisedWith("Exception", fr[c].remote.body)
           /\ fr[c].ncalls <= 1

\* C16: when the remote service delivers the fragments f1..fn and ends,
\* async_stream returns f1 + ... + fn, the fragments in the order of their
\* arrival, none dropped or repeated.
C16_FragmentsConcatenated ==
    \A c \in Callers :
        (StreamedFrame(fr[c]) /\ fr[c].remote.kind = "stream")
        => LET RECURSIVE Concatenation(_)
               Concatenation(fragments) ==
                   IF fragments = <<>> THEN <<>>
                   ELSE Head(fragments) \o Concatenation(Tail(fragments))
           IN  /\ fr[c].out.kind = "return"
               /\ fr[c].out.val = Concatenation(fr[c].remote.fragments)

----------------------------------------------------------------------------
(* Properties of the prompt converter, checked under SpecConv *)

\* The dicts the round-trip law covers: roles user and assistant only, no
\* colon and no blank line in a content.
RoundTripInput(message_dict) ==
    \A i \in 1..Len(message_dict) :
        /\ message_dict[i][1] \in {"user", "assistant"}
        /\ \A j \in 1..Len(message_dict[i][2]) :
              /\ message_dict[i][2][j] # ":"
              /\ ~OccursAt(message_dict[i][2], <<"\n", "\n">>, j)

\* C9: for a conversation of user and assistant messages whose contents
\* hold no colon and no blank line, convert_to_openai applied to the
\* result of convert_to_anthropic returns the conversation.
C9_RoundTrip ==
    (conv.pc = "round_trip" /\ RoundTripInput(conv.message_dict))
    => (conv.out.kind = "return" /\ conv.out.dict = conv.message_dict)

\* C13: convert_to_openai raises for every string that has a segment
\* (between blank lines) without a colon, and a string whose segments all
\* hold a colon is not rejected as unparsable: a segment is split at its
\* first colon, whatever follows it.
C13_ParseErrorOnlyWithoutColon ==
    conv.pc = "convert_to_openai"
    => LET segments == Split(conv.message_string, <<"\n", "\n">>)
           colonless == { i \in 1..Len(segments) :
                            \A j \in 1..Len(segments[i]) :
                                segments[i][j] # ":" }
       IN  /\ colonless # {} => conv.out.kind = "raise"
           /\ colonless = {} => conv.out # ConvRaised("ValueError")

\* C17: convert_to_anthropic returns, for the items of the dict in order,
\* the concatenation of "Human:\n\n" and the content for the role user and
\* of "Assistant:\n\n" and the content for the role assistant; an item of
\* another role adds nothing, and no dict makes it raise.
C17_TranscriptConcatenation ==
    conv.pc = "convert_to_anthropic"
    => LET RECURSIVE Transcript(_)
           Transcript(items) ==
               IF items = <<>> THEN <<>>
               ELSE (IF Head(items)[1] = "user"
                     THEN human_prompt \o Head(items)[2]
                     ELSE IF Head(items)[1] = "assistant"
                     THEN ai_prompt \o Head(items)[2]
                     ELSE <<>>)
                    \o Transcript(Tail(items))
       IN  conv.out = ConvReturnedText(Transcript(conv.message_dict))

=============================================================================
